---- MODULE Spec2Model ----
(***************************************************************************)
(* Model of OpenSource-Compass:                                            *)
(*   - applyFormat          (frontend/js/pr-generator.js)                  *)
(*   - parseGitHubUrl, validateIssue, buildSectionsList                    *)
(*                          (backend/controllers/issueController.js)      *)
(* Strings are sequences of one-character strings.                         *)
(***************************************************************************)
EXTENDS Integers, Sequences, FiniteSets, TLC

VARIABLES
    buf,        \* the textarea: [text, selectionStart, selectionEnd]
    prev,       \* the textarea as it was when the last applyFormat was called
    lastOp,     \* the action of the last applyFormat call ("none" before any)
    headingFrom,    \* the textarea when the current run of heading calls began
    headingRuns,    \* number of heading calls in a row, up to now
    pc,                     \* validateIssue: where the handler is
    issuesRes,              \* the issue request and its settled outcome
    treeRes,                \* the tree request for branch main
    fallbackTree,           \* the tree request for branch master
    existingIssuesSummary,  \* let existingIssuesSummary
    projectContext,         \* let projectContext
    fetches,                \* number of axios.get calls made
    raised,                 \* the aggregation step threw to its caller
    planPc,     \* generatePRDescription: where the handler is
    body,       \* req.body: [prLink, problem, changes, structureSettings]
    sections,   \* the entries buildSectionsList returned
    urlPc,      \* parseGitHubUrl: "call" before, "returned" or "thrown" after
    url,        \* the repoLink given to parseGitHubUrl
    repoDetails \* what parseGitHubUrl returned

editVars == <<buf, prev, lastOp, headingFrom, headingRuns>>
aggVars == <<pc, issuesRes, treeRes, fallbackTree, existingIssuesSummary,
             projectContext, fetches, raised>>
planVars == <<planPc, body, sections>>
urlVars == <<urlPc, url, repoDetails>>
vars == <<editVars, aggVars, planVars, urlVars>>

----------------------------------------------------------------------------
(* Bounds of the model *)

MaxLen == 5         \* longest text an applyFormat call is explored on
MaxRuns == 4        \* most heading calls in a row that are counted
MaxIssues == 2      \* longest issue list the issue request returns
MaxTreeLen == 120   \* longest listing a tree request returns
MaxUrlLen == 5      \* longest repoLink, in tokens after the origin

----------------------------------------------------------------------------
(* JavaScript string built-ins, as ECMAScript defines them *)

NL == "\n"
Backtick == "BACKTICK"      \* the one character U+0060

Min(a, b) == IF a <= b THEN a ELSE b
Max(a, b) == IF a >= b THEN a ELSE b

\* indices given to substring / lastIndexOf are clamped into [0, length]
Clamp(i, n) == IF i < 0 THEN 0 ELSE IF i > n THEN n ELSE i

\* String.prototype.substring(a, b): both ends clamped, swapped when a > b
Substring(t, a, b) ==
    LET ca == Clamp(a, Len(t))
        cb == Clamp(b, Len(t))
    IN  SubSeq(t, Min(ca, cb) + 1, Max(ca, cb))

\* String.prototype.substring(a)
SubstringFrom(t, a) == Substring(t, a, Len(t))

\* String.prototype.lastIndexOf(ch, fromIndex) for a one-character ch:
\* the search starts at min(max(fromIndex, 0), length - 1) and runs backwards
LastIndexOf(t, ch, fromIndex) ==
    LET k == Clamp(fromIndex, Len(t))
        hits == {i \in 0..(Len(t) - 1) : i <= k /\ t[i + 1] = ch}
    IN  IF hits = {} THEN -1 ELSE CHOOSE i \in hits : \A j \in hits : j <= i

\* String.prototype.startsWith(p)
StartsWith(t, p) == Len(t) >= Len(p) /\ SubSeq(t, 1, Len(p)) = p

\* String.prototype.split(sep) for a one-character sep
RECURSIVE Split(_, _)
Split(t, sep) ==
    IF \A i \in 1..Len(t) : t[i] # sep
    THEN <<t>>
    ELSE LET k == CHOOSE i \in 1..Len(t) :
                      t[i] = sep /\ \A j \in 1..(i - 1) : t[j] # sep
         IN  <<SubSeq(t, 1, k - 1)>> \o Split(SubSeq(t, k + 1, Len(t)), sep)

\* Array.prototype.join(sep)
RECURSIVE Join(_, _)
Join(parts, sep) ==
    IF parts = <<>> THEN <<>>
    ELSE IF Len(parts) = 1 THEN parts[1]
    ELSE parts[1] \o sep \o Join(Tail(parts), sep)

\* Array.prototype.map(line => prefix + line)
PrefixEach(parts, prefix) == [i \in 1..Len(parts) |-> prefix \o parts[i]]

----------------------------------------------------------------------------
(* applyFormat: literals of the switch *)

BoldText          == <<"b","o","l","d"," ","t","e","x","t">>
ItalicText        == <<"i","t","a","l","i","c"," ","t","e","x","t">>
StrikethroughText == <<"s","t","r","i","k","e","t","h","r","o","u","g","h">>
CodeText          == <<"c","o","d","e">>
LinkText          == <<"[","l","i","n","k"," ","t","e","x","t","]","(","u","r","l",")">>
LinkClose         == <<"]","(","u","r","l",")">>
ListItemText      == <<"l","i","s","t"," ","i","t","e","m">>
TaskItemText      == <<"t","a","s","k"," ","i","t","e","m">>
QuoteText         == <<"q","u","o","t","e">>
H1 == <<"#"," ">>
H2 == <<"#","#"," ">>
H3 == <<"#","#","#"," ">>

WrapActions   == {"bold", "italic", "strikethrough", "code"}
PrefixActions == {"ul", "checklist", "quote"}
Actions == WrapActions \cup PrefixActions \cup {"link", "heading", "other"}

\* `selected || placeholder`: the empty string is falsy
OrElse(selected, placeholder) == IF selected # <<>> THEN selected ELSE placeholder

\* the marker of a wrap action (before = after)
WrapMarker(action) ==
    CASE action = "bold"          -> <<"*","*">>
      [] action = "italic"        -> <<"*">>
      [] action = "strikethrough" -> <<"~","~">>
      [] action = "code"          -> <<Backtick>>

WrapPlaceholder(action) ==
    CASE action = "bold"          -> BoldText
      [] action = "italic"        -> ItalicText
      [] action = "strikethrough" -> StrikethroughText
      [] action = "code"          -> CodeText

LinePrefix(action) ==
    CASE action = "ul"        -> <<"-"," ">>
      [] action = "checklist" -> <<"-"," ","[", " ", "]"," ">>
      [] action = "quote"     -> <<">"," ">>

LinePlaceholder(action) ==
    CASE action = "ul"        -> ListItemText
      [] action = "checklist" -> TaskItemText
      [] action = "quote"     -> QuoteText

\* the (before, after, insert, cursorOffset) the switch leaves for an action
\* other than heading
Quad(action, text, start, selected) ==
    CASE action \in WrapActions ->
            [before |-> WrapMarker(action), after |-> WrapMarker(action),
             insert |-> OrElse(selected, WrapPlaceholder(action)),
             cursorOffset |-> IF selected # <<>> THEN 0 ELSE Len(WrapMarker(action))]
      [] action = "link" ->
            IF selected # <<>>
            THEN [before |-> <<"[">>, after |-> LinkClose, insert |-> selected,
                  cursorOffset |-> 0]
            ELSE [before |-> <<>>, after |-> <<>>, insert |-> LinkText,
                  cursorOffset |-> 1]
      [] action \in PrefixActions ->
            [before |-> IF start > 0 /\ text[start] # NL THEN <<NL>> ELSE <<>>,
             after |-> <<>>,
             insert |-> Join(PrefixEach(Split(OrElse(selected, LinePlaceholder(action)), NL),
                                        LinePrefix(action)), <<NL>>),
             cursorOffset |-> 0]

\* the selection of a wrapped text left where it started: before.length
\* not added to selectionStart
SpliceKeepsStart(b, q) ==
    LET start == b.selectionStart
        end == b.selectionEnd
        text == b.text
        selected == Substring(text, start, end)
        replacement == q.before \o q.insert \o q.after
        pos == start + Len(q.before) + q.cursorOffset
    IN  [text |-> Substring(text, 0, start) \o replacement \o SubstringFrom(text, end),
         selectionStart |-> IF selected # <<>> THEN start ELSE pos,
         selectionEnd |-> IF selected # <<>>
                          THEN start + Len(q.before) + Len(q.insert)
                          ELSE pos + Len(q.insert) - q.cursorOffset]

\* lines 377-388: splice the replacement in and set the selection
Splice(b, q) ==
    LET start == b.selectionStart
        end == b.selectionEnd
        text == b.text
        selected == Substring(text, start, end)
        replacement == q.before \o q.insert \o q.after
        pos == start + Len(q.before) + q.cursorOffset
    IN  [text |-> Substring(text, 0, start) \o replacement \o SubstringFrom(text, end),
         selectionStart |-> IF selected # <<>> THEN start + Len(q.before) ELSE pos,
         selectionEnd |-> IF selected # <<>>
                          THEN start + Len(q.before) + Len(q.insert)
                          ELSE pos + Len(q.insert) - q.cursorOffset]

\* a four-level cycle: the ###  prefix rewritten to #  instead of removed
HeadingFourLevels(b) ==
    LET start == b.selectionStart
        end == b.selectionEnd
        text == b.text
        lineStart == LastIndexOf(text, NL, start - 1) + 1
        lineText == Substring(text, lineStart, end)
        head == Substring(text, 0, lineStart)
        rest == SubstringFrom(text, end)
        at(p) == [selectionStart |-> p, selectionEnd |-> p]
    IN  IF StartsWith(lineText, H3)
        THEN [text |-> head \o H1 \o SubstringFrom(lineText, Len(H3)) \o rest] @@ at(start - 2)
        ELSE IF StartsWith(lineText, H2)
        THEN [text |-> head \o H3 \o SubstringFrom(lineText, Len(H2)) \o rest] @@ at(start + 1)
        ELSE IF StartsWith(lineText, H1)
        THEN [text |-> head \o H2 \o SubstringFrom(lineText, Len(H1)) \o rest] @@ at(start + 1)
        ELSE [text |-> head \o H2 \o lineText \o rest] @@ at(start + 3)

\* case heading (lines 315-341)
Heading(b) ==
    LET start == b.selectionStart
        end == b.selectionEnd
        text == b.text
        lineStart == LastIndexOf(text, NL, start - 1) + 1
        lineText == Substring(text, lineStart, end)
        head == Substring(text, 0, lineStart)
        rest == SubstringFrom(text, end)
        at(p) == [selectionStart |-> p, selectionEnd |-> p]
    IN  IF StartsWith(lineText, H3)
        THEN [text |-> head \o SubstringFrom(lineText, Len(H3)) \o rest] @@ at(start - 4)
        ELSE IF StartsWith(lineText, H2)
        THEN [text |-> head \o H3 \o SubstringFrom(lineText, Len(H2)) \o rest] @@ at(start + 1)
        ELSE IF StartsWith(lineText, H1)
        THEN [text |-> head \o H2 \o SubstringFrom(lineText, Len(H1)) \o rest] @@ at(start + 1)
        ELSE [text |-> head \o H2 \o lineText \o rest] @@ at(start + 3)

\* applyFormat(textarea, action): the textarea it leaves
applyFormat(b, action) ==
    IF action = "heading" THEN Heading(b)
    ELSE IF action = "other" THEN b
    ELSE Splice(b, Quad(action, b.text, b.selectionStart,
                        Substring(b.text, b.selectionStart, b.selectionEnd)))

----------------------------------------------------------------------------
(* The editor as a state machine *)

Chars == {"#", " ", NL, "a"}

RECURSIVE TextsOfLen(_)
TextsOfLen(n) ==
    IF n = 0 THEN {<<>>}
    ELSE {Append(t, c) : t \in TextsOfLen(n - 1), c \in Chars}

Texts == UNION {TextsOfLen(n) : n \in 0..MaxLen}

\* the EditBuffer invariant a text control offers its callers
WellFormed(b) ==
    /\ 0 <= b.selectionStart
    /\ b.selectionStart <= b.selectionEnd
    /\ b.selectionEnd <= Len(b.text)

\* any text with any selection inside it
EditInit ==
    /\ \E t \in Texts : \E s \in 0..Len(t) : \E e \in s..Len(t) :
          buf = [text |-> t, selectionStart |-> s, selectionEnd |-> e]
    /\ prev = buf
    /\ lastOp = "none"
    /\ headingFrom = buf
    /\ headingRuns = 0

\* a click on a format button, or a keyboard shortcut: applyFormat(textarea, action)
ApplyFormat(action) ==
    /\ WellFormed(buf)
    /\ Len(buf.text) <= MaxLen
    /\ prev' = buf
    /\ lastOp' = action
    /\ buf' = applyFormat(buf, action)
    /\ action = "heading" => headingRuns < MaxRuns
    /\ headingRuns' = IF action = "heading" THEN headingRuns + 1 ELSE 0
    /\ headingFrom' = IF action = "heading" THEN headingFrom ELSE buf'
    /\ UNCHANGED <<aggVars, planVars, urlVars>>

EditNext == \E action \in Actions : ApplyFormat(action)

EditIdle ==
    /\ buf = [text |-> <<>>, selectionStart |-> 0, selectionEnd |-> 0]
    /\ prev = buf
    /\ lastOp = "none"
    /\ headingFrom = buf
    /\ headingRuns = 0

----------------------------------------------------------------------------
(* validateIssue, lines 31-76: the context aggregation *)

TreeLimit == 100    \* .slice(0, 100)

Reasons == {"Network Error", "Request failed with status code 404"}

NoRequest == [status |-> "none", reason |-> "", data |-> <<>>]
Pending   == [status |-> "pending", reason |-> "", data |-> <<>>]
Fulfilled(d) == [status |-> "fulfilled", reason |-> "", data |-> d]
Rejected(r)  == [status |-> "rejected", reason |-> r, data |-> <<>>]

\* what the issue request can resolve to: response.data is an array of issue
\* objects (created_at and body present or not), or is no array
IssueObjects == [created_at : BOOLEAN, body : BOOLEAN]

RECURSIVE SeqsUpTo(_, _)
SeqsUpTo(S, n) ==
    IF n = 0 THEN {<<>>}
    ELSE SeqsUpTo(S, n - 1) \cup
         {Append(q, x) : q \in {r \in SeqsUpTo(S, n - 1) : Len(r) = n - 1}, x \in S}

IssuePayloads ==
    {[isArray |-> FALSE, items |-> <<>>]} \cup
    {[isArray |-> TRUE, items |-> q] : q \in SeqsUpTo(IssueObjects, MaxIssues)}

\* what a tree request can resolve to: response.data.tree is a listing of
\* entries {path, type}, or is missing.  A listing of n entries has the paths
\* 1..n in upstream order; every dirEvery-th entry is a directory (type tree).
DirPatterns == {0, 2, 7}

Listing(n, dirEvery) ==
    [i \in 1..n |->
        [path |-> i,
         type |-> IF dirEvery > 0 /\ i % dirEvery = 0 THEN "tree" ELSE "blob"]]

TreePayloads ==
    {[hasTree |-> FALSE, tree |-> <<>>]} \cup
    {[hasTree |-> TRUE, tree |-> Listing(n, d)] : n \in 0..MaxTreeLen, d \in DirPatterns}

\* the values the two summary variables take
Unset              == [kind |-> "unset", detail |-> "", lines |-> <<>>]
Placeholder(k)     == [kind |-> k, detail |-> "", lines |-> <<>>]
CouldNotFetchIssues == Placeholder("Could not fetch existing issues.")
CouldNotFetchFiles  == Placeholder("Could not fetch project files.")
CouldNotFetchTree   ==
    Placeholder("Could not fetch file tree (repo might be empty or too large/private).")
ErrorFetchingIssues(message) ==
    [kind |-> "Error fetching issues: ", detail |-> message, lines |-> <<>>]
Joined(ls) == [kind |-> "joined", detail |-> "", lines |-> ls]

\* Array.prototype.filter(item => item.type === 'blob')
RECURSIVE FilterBlob(_)
FilterBlob(tree) ==
    IF tree = <<>> THEN <<>>
    ELSE IF Len(tree) = 1
         THEN IF tree[1].type = "blob" THEN tree ELSE <<>>
         ELSE LET h == Len(tree) \div 2
              IN  FilterBlob(SubSeq(tree, 1, h)) \o FilterBlob(SubSeq(tree, h + 1, Len(tree)))

\* Array.prototype.slice(0, n)
Slice(q, n) == SubSeq(q, 1, Min(n, Len(q)))

\* .slice(0, 100) applied before .filter
TreeSummarySliceFirst(data) ==
    IF ~data.hasTree THEN [thrown |-> TRUE, value |-> Unset]
    ELSE LET kept == FilterBlob(Slice(data.tree, TreeLimit))
         IN  [thrown |-> FALSE,
              value |-> Joined([i \in 1..Len(kept) |-> kept[i].path])]

\* lines 54-58 and 64-68: .filter(blob).slice(0, 100).map(item => item.path).join
\* (a missing data.tree throws a TypeError)
TreeSummary(data) ==
    IF ~data.hasTree THEN [thrown |-> TRUE, value |-> Unset]
    ELSE LET kept == Slice(FilterBlob(data.tree), TreeLimit)
         IN  [thrown |-> FALSE,
              value |-> Joined([i \in 1..Len(kept) |-> kept[i].path])]

\* lines 45-47: one line per issue; issue.created_at.split throws a TypeError
\* when created_at is missing, and so does data.map when data is no array
IssueLine(issue, number) ==
    [number |-> number,
     snippet |-> IF issue.body THEN "body" ELSE "No description"]

IssuesSummary(data) ==
    IF ~data.isArray \/ \E i \in 1..Len(data.items) : ~data.items[i].created_at
    THEN [thrown |-> TRUE, value |-> Unset]
    ELSE [thrown |-> FALSE,
          value |-> Joined([i \in 1..Len(data.items) |-> IssueLine(data.items[i], i)])]

\* lines 44-50
InspectIssues(res) ==
    IF res.status = "fulfilled" THEN IssuesSummary(res.data)
    ELSE [thrown |-> FALSE, value |-> ErrorFetchingIssues(res.reason)]

\* the try block without its catch: the error propagates
OuterCatchRethrows(thrown) == thrown

\* lines 34, 74-76: try { ... } catch (error) { console.error(...) }
OuterCatch(thrown) == FALSE

\* lines 60, 69-71: try { ... } catch (e) { projectContext = "Could not fetch file tree..." }
InnerCatch(result) ==
    IF result.thrown THEN [thrown |-> FALSE, value |-> CouldNotFetchTree] ELSE result

AggInit ==
    /\ pc = "start"
    /\ issuesRes = NoRequest
    /\ treeRes = NoRequest
    /\ fallbackTree = NoRequest
    /\ existingIssuesSummary = Unset
    /\ projectContext = Unset
    /\ fetches = 0
    /\ raised = FALSE

AggIdle == AggInit

\* lines 22-29: a required field is missing, or parseGitHubUrl returned null
BadRequest ==
    /\ pc = "start"
    /\ pc' = "status400"
    /\ UNCHANGED <<issuesRes, treeRes, fallbackTree, existingIssuesSummary,
                   projectContext, fetches, raised>>
    /\ UNCHANGED <<editVars, planVars, urlVars>>

\* lines 31-42: set the placeholders, start both requests, await allSettled
StartFetches ==
    /\ pc = "start"
    /\ existingIssuesSummary' = CouldNotFetchIssues
    /\ projectContext' = CouldNotFetchFiles
    /\ issuesRes' = Pending
    /\ treeRes' = Pending
    /\ fetches' = fetches + 2
    /\ pc' = "allSettled"
    /\ UNCHANGED <<fallbackTree, raised>>
    /\ UNCHANGED <<editVars, planVars, urlVars>>

\* the issue request settles
SettleIssues ==
    /\ pc = "allSettled"
    /\ issuesRes.status = "pending"
    /\ \/ \E d \in IssuePayloads : issuesRes' = Fulfilled(d)
       \/ \E r \in Reasons : issuesRes' = Rejected(r)
    /\ UNCHANGED <<pc, treeRes, fallbackTree, existingIssuesSummary,
                   projectContext, fetches, raised>>
    /\ UNCHANGED <<editVars, planVars, urlVars>>

\* the tree request for main settles
SettleTree ==
    /\ pc = "allSettled"
    /\ treeRes.status = "pending"
    /\ \/ \E d \in TreePayloads : treeRes' = Fulfilled(d)
       \/ \E r \in Reasons : treeRes' = Rejected(r)
    /\ UNCHANGED <<pc, issuesRes, fallbackTree, existingIssuesSummary,
                   projectContext, fetches, raised>>
    /\ UNCHANGED <<editVars, planVars, urlVars>>

\* lines 44-61: both have settled; the handler runs on to the next await or
\* to the end of the try block
AfterAllSettled ==
    /\ pc = "allSettled"
    /\ issuesRes.status \in {"fulfilled", "rejected"}
    /\ treeRes.status \in {"fulfilled", "rejected"}
    /\ LET i == InspectIssues(issuesRes)
           t == IF treeRes.status = "fulfilled" THEN TreeSummary(treeRes.data)
                ELSE [thrown |-> FALSE, value |-> Unset]
           toFallback == ~i.thrown /\ treeRes.status = "rejected"
           thrown == i.thrown \/ t.thrown
       IN  /\ existingIssuesSummary' = IF i.thrown THEN existingIssuesSummary ELSE i.value
           /\ projectContext' =
                 IF ~i.thrown /\ treeRes.status = "fulfilled" /\ ~t.thrown
                 THEN t.value ELSE projectContext
           /\ fallbackTree' = IF toFallback THEN Pending ELSE fallbackTree
           /\ fetches' = IF toFallback THEN fetches + 1 ELSE fetches
           /\ raised' = IF toFallback THEN raised ELSE OuterCatch(thrown)
           /\ pc' = IF toFallback THEN "awaitFallback"
                    ELSE IF OuterCatch(thrown) THEN "thrown" ELSE "prompt"
    /\ UNCHANGED <<issuesRes, treeRes>>
    /\ UNCHANGED <<editVars, planVars, urlVars>>

\* lines 61-72: the request for master settles
SettleFallback ==
    /\ pc = "awaitFallback"
    /\ fallbackTree.status = "pending"
    /\ \/ \E d \in TreePayloads : fallbackTree' = Fulfilled(d)
       \/ \E r \in Reasons : fallbackTree' = Rejected(r)
    /\ LET t == InnerCatch(IF fallbackTree'.status = "fulfilled"
                           THEN TreeSummary(fallbackTree'.data)
                           ELSE [thrown |-> TRUE, value |-> Unset])
       IN  /\ projectContext' = IF t.thrown THEN projectContext ELSE t.value
           /\ raised' = OuterCatch(t.thrown)
           /\ pc' = IF OuterCatch(t.thrown) THEN "thrown" ELSE "prompt"
    /\ UNCHANGED <<issuesRes, treeRes, existingIssuesSummary, fetches>>
    /\ UNCHANGED <<editVars, planVars, urlVars>>

AggNext ==
    \/ BadRequest
    \/ StartFetches
    \/ SettleIssues
    \/ SettleTree
    \/ AfterAllSettled
    \/ SettleFallback

----------------------------------------------------------------------------
(* buildSectionsList and its caller generatePRDescription *)

Toggles == {"includeSummary", "includeChecklist", "includeBreakingChanges",
            "includeScreenshots", "includeLinkedIssues"}

\* lines 200-206
defaults == [k \in Toggles |-> TRUE]

\* { ...settings, ...defaults }: the defaults written over the settings
SpreadDefaultsLast(a, b) ==
    [k \in (DOMAIN a) \cup (DOMAIN b) |-> IF k \in DOMAIN a THEN a[k] ELSE b[k]]

\* line 208: { ...a, ...b }, the keys of b written over those of a
Spread(a, b) ==
    [k \in (DOMAIN a) \cup (DOMAIN b) |-> IF k \in DOMAIN b THEN b[k] ELSE a[k]]

Entry(name, guidance) == [name |-> name, guidance |-> guidance]

\* sectionEntries.push(...) under `if (flag)`
PushIf(flag, entries, e) == IF flag THEN Append(entries, e) ELSE entries

\* lines 198-245; the entries are returned joined by a line break
buildSectionsList(prLink, settings) ==
    LET s == Spread(defaults, settings)
        e1 == <<Entry("Description", "")>>
        e2 == PushIf(s["includeSummary"], e1, Entry("Summary", "overview"))
        e3 == PushIf(s["includeLinkedIssues"], e2,
                     Entry("Related Issue",
                           IF prLink # "" THEN "Relates to " \o prLink
                           ELSE "placeholder like #issue-number"))
        e4 == Append(e3, Entry("Type of Change", "options"))
        e5 == PushIf(s["includeChecklist"], e4, Entry("Checklist", ""))
        e6 == PushIf(s["includeBreakingChanges"], e5, Entry("Breaking Changes", "list"))
        e7 == Append(e6, Entry("Testing Details", ""))
        e8 == PushIf(s["includeScreenshots"], e7, Entry("Screenshots", "if applicable"))
    IN  Append(e8, Entry("Additional Notes", ""))

\* structureSettings: any subset of the toggles, each true or false; a body
\* without structureSettings spreads like the empty object
ToggleSets == UNION {[D -> BOOLEAN] : D \in SUBSET Toggles}

Bodies == [prLink : {"", "https://github.com/o/r/pull/1"},
           problem : BOOLEAN, changes : BOOLEAN,
           structureSettings : ToggleSets]

PlanInit ==
    /\ planPc = "request"
    /\ body \in Bodies
    /\ sections = <<>>

PlanIdle ==
    /\ planPc = "request"
    /\ body = [prLink |-> "", problem |-> FALSE, changes |-> FALSE,
               structureSettings |-> <<>>]
    /\ sections = <<>>

\* lines 147-149
MissingFields ==
    /\ planPc = "request"
    /\ body.prLink = "" /\ (~body.problem \/ ~body.changes)
    /\ planPc' = "status400"
    /\ UNCHANGED <<body, sections>>
    /\ UNCHANGED <<editVars, aggVars, urlVars>>

\* lines 151-152
BuildSections ==
    /\ planPc = "request"
    /\ ~(body.prLink = "" /\ (~body.problem \/ ~body.changes))
    /\ sections' = buildSectionsList(body.prLink, body.structureSettings)
    /\ planPc' = "prompt"
    /\ UNCHANGED body
    /\ UNCHANGED <<editVars, aggVars, urlVars>>

PlanNext == MissingFields \/ BuildSections

----------------------------------------------------------------------------
(* parseGitHubUrl, lines 4-17 *)

\* A repoLink is a string of tokens: the origin "https://github.com", "/",
\* the names "a" and "b", and the four characters ".git".
Origin == "https://github.com"
UrlTokens == {"/", "a", "b", ".git"}

Urls == {prefix \o rest : prefix \in {<<>>, <<Origin>>},
                          rest \in SeqsUpTo(UrlTokens, MaxUrlLen)}

\* new URL(url): throws a TypeError unless the string starts with a scheme;
\* what follows the origin up to the first "/" belongs to the host and the
\* pathname is the rest, or "/" when there is none
NewURL(u) ==
    IF u = <<>> \/ u[1] # Origin THEN [thrown |-> TRUE, pathname |-> <<>>]
    ELSE LET rest == Tail(u)
             slashes == {i \in 1..Len(rest) : rest[i] = "/"}
         IN  IF slashes = {} THEN [thrown |-> FALSE, pathname |-> <<"/">>]
             ELSE LET k == CHOOSE i \in slashes : \A j \in slashes : i <= j
                  IN  [thrown |-> FALSE, pathname |-> SubSeq(rest, k, Len(rest))]

\* pathname.replace(/\.git$/, '')
StripDotGit(pathname) ==
    IF pathname # <<>> /\ pathname[Len(pathname)] = ".git"
    THEN SubSeq(pathname, 1, Len(pathname) - 1)
    ELSE pathname

\* .filter(Boolean) left out: empty segments are kept
KeepEmpty(parts) == parts

\* .filter(Boolean): the empty string is falsy
RECURSIVE FilterBoolean(_)
FilterBoolean(parts) ==
    IF parts = <<>> THEN <<>>
    ELSE IF Head(parts) # <<>>
         THEN <<Head(parts)>> \o FilterBoolean(Tail(parts))
         ELSE FilterBoolean(Tail(parts))

Null == [kind |-> "null", owner |-> <<>>, repo |-> <<>>]
NotCalled == [kind |-> "none", owner |-> <<>>, repo |-> <<>>]

\* lines 4-17: the result, and whether the call threw
parseGitHubUrl(u) ==
    LET urlObj == NewURL(u)
    IN  IF urlObj.thrown
        THEN [thrown |-> FALSE, value |-> Null]
        ELSE LET pathname == StripDotGit(urlObj.pathname)
                 parts == FilterBoolean(Split(pathname, "/"))
             IN  IF Len(parts) >= 2
                 THEN [thrown |-> FALSE,
                       value |-> [kind |-> "ref", owner |-> parts[1], repo |-> parts[2]]]
                 ELSE [thrown |-> FALSE, value |-> Null]

UrlInit ==
    /\ urlPc = "call"
    /\ url \in Urls
    /\ repoDetails = NotCalled

UrlIdle ==
    /\ urlPc = "call"
    /\ url = <<>>
    /\ repoDetails = NotCalled

\* line 26: const repoDetails = parseGitHubUrl(repoLink)
ParseGitHubUrl ==
    /\ urlPc = "call"
    /\ LET r == parseGitHubUrl(url)
       IN  /\ urlPc' = IF r.thrown THEN "thrown" ELSE "returned"
           /\ repoDetails' = IF r.thrown THEN repoDetails ELSE r.value
    /\ UNCHANGED url
    /\ UNCHANGED <<editVars, aggVars, planVars>>

UrlNext == ParseGitHubUrl

----------------------------------------------------------------------------
(* Specifications *)

InitEdit == EditInit /\ AggIdle /\ PlanIdle /\ UrlIdle
SpecEdit == InitEdit /\ [][EditNext]_vars

InitAgg == AggInit /\ EditIdle /\ PlanIdle /\ UrlIdle
SpecAgg == InitAgg /\ [][AggNext]_vars

InitPlan == PlanInit /\ EditIdle /\ AggIdle /\ UrlIdle
SpecPlan == InitPlan /\ [][PlanNext]_vars

InitUrl == UrlInit /\ EditIdle /\ AggIdle /\ PlanIdle
SpecUrl == InitUrl /\ [][UrlNext]_vars

----------------------------------------------------------------------------
(* Claims about applyFormat *)

\* the text before the cursor, the selected text and the text after it,
\* of the textarea the last applyFormat was called on
Before(b)   == SubSeq(b.text, 1, b.selectionStart)
Selected(b) == SubSeq(b.text, b.selectionStart + 1, b.selectionEnd)
After(b)    == SubSeq(b.text, b.selectionEnd + 1, Len(b.text))

\* the marker pair the specification gives each wrap operation
SpecMarker(action) ==
    IF action = "bold" THEN <<"*","*">>
    ELSE IF action = "italic" THEN <<"*">>
    ELSE IF action = "strikethrough" THEN <<"~","~">>
    ELSE <<Backtick>>

\* C1: after any sequence of applyFormat operations from a well-formed buffer,
\* every buffer satisfies 0 <= selectionStart <= selectionEnd <= length(text).
C1_SelectionInvariant == WellFormed(buf)

\* C8: a wrap operation with marker m on a non-empty selection [s, e) gives
\* text[0..s) + m + text[s..e) + m + text[e..], the selection (s+|m|, e+|m|)
\* spanning the original selected text, and deleting the two markers around
\* the new selection restores the original text.
C8_WrapSelection ==
    (lastOp \in WrapActions /\ prev.selectionStart < prev.selectionEnd) =>
        LET m == SpecMarker(lastOp)
            s == prev.selectionStart
            e == prev.selectionEnd
        IN  /\ buf.text = Before(prev) \o m \o Selected(prev) \o m \o After(prev)
            /\ buf.selectionStart = s + Len(m)
            /\ buf.selectionEnd = e + Len(m)
            /\ Selected(buf) = Selected(prev)
            /\ SubSeq(buf.text, 1, buf.selectionStart - Len(m)) \o Selected(buf)
                 \o SubSeq(buf.text, buf.selectionEnd + Len(m) + 1, Len(buf.text))
               = prev.text

\* bold on "aa a" with "aa" selected gives "**aa** a" with selection (2,4)
C8_Witness ==
    /\ lastOp = "bold"
    /\ prev = [text |-> <<"a","a"," ","a">>, selectionStart |-> 0, selectionEnd |-> 2]
    /\ buf = [text |-> <<"*","*","a","a","*","*"," ","a">>,
              selectionStart |-> 2, selectionEnd |-> 4]

\* C9: a wrap operation with marker m on an empty selection at c inserts
\* m + placeholder + m at c and selects exactly the placeholder:
\* selectionStart = c + |m|, selectionEnd = c + |m| + |placeholder|.
C9_WrapEmptySelectsPlaceholder ==
    (lastOp \in WrapActions /\ prev.selectionStart = prev.selectionEnd) =>
        LET m == SpecMarker(lastOp)
            c == prev.selectionStart
            ph == WrapPlaceholder(lastOp)
        IN  /\ buf.text = Before(prev) \o m \o ph \o m \o After(prev)
            /\ buf.selectionStart = c + Len(m)
            /\ buf.selectionEnd = c + Len(m) + Len(ph)

\* C10: link on an empty selection at c inserts [link text](url) at c and
\* leaves an empty cursor after the opening bracket:
\* selectionStart = selectionEnd = c + 1.
C10_LinkEmptyCursor ==
    (lastOp = "link" /\ prev.selectionStart = prev.selectionEnd) =>
        /\ buf.text = Before(prev) \o LinkText \o After(prev)
        /\ buf.selectionStart = prev.selectionStart + 1
        /\ buf.selectionEnd = prev.selectionStart + 1

\* the start of the line holding position p: the position after the nearest
\* line break before p, or the buffer start
LineStartOf(text, p) ==
    LET breaks == {i \in 1..p : text[i] = NL}
    IN  IF breaks = {} THEN 0 ELSE CHOOSE i \in breaks : \A j \in breaks : j <= i

\* the heading prefix a line starts with, checked in the order ### , ## , # , none
PrefixAt(text, lineStart) ==
    LET line == SubSeq(text, lineStart + 1, Len(text))
    IN  IF StartsWith(line, H3) THEN H3
        ELSE IF StartsWith(line, H2) THEN H2
        ELSE IF StartsWith(line, H1) THEN H1
        ELSE <<>>

\* the cycle: none -> ## , #  -> ## , ##  -> ### , ###  -> none
NextPrefix(prefix) ==
    IF prefix = H3 THEN <<>> ELSE IF prefix = H2 THEN H3 ELSE H2

\* text with the prefix old at lineStart replaced by new
WithPrefix(text, lineStart, old, new) ==
    SubSeq(text, 1, lineStart) \o new \o SubSeq(text, lineStart + Len(old) + 1, Len(text))

\* C11: heading reads the level of the line containing selectionStart from
\* the prefix of the line (### , ## , # , none, in that order) and rewrites it
\* to the next level of the cycle, wherever in the line the cursor or the
\* selection is, the line start and the inside of the prefix included.
C11_HeadingCyclesLinePrefix ==
    lastOp = "heading" =>
        LET lineStart == LineStartOf(prev.text, prev.selectionStart)
            old == PrefixAt(prev.text, lineStart)
        IN  buf.text = WithPrefix(prev.text, lineStart, old, NextPrefix(old))

\* C13: heading changes only the leading prefix of the current line, whose
\* start is the position after the nearest line break before selectionStart
\* or the buffer start (0 when selectionStart is 0): every other character is
\* kept in order, the length changes by the prefix delta (+3, +1, +1 or -4)
\* and the selection collapses to selectionStart + that delta.
C13_HeadingChangesOnlyPrefix ==
    lastOp = "heading" =>
        LET lineStart == LineStartOf(prev.text, prev.selectionStart)
            line == SubSeq(prev.text, lineStart + 1, Len(prev.text))
        IN  \E old \in {<<>>, H1, H2, H3} :
                LET delta == Len(NextPrefix(old)) - Len(old)
                IN  /\ StartsWith(line, old)
                    /\ buf.text = WithPrefix(prev.text, lineStart, old, NextPrefix(old))
                    /\ Len(buf.text) = Len(prev.text) + delta
                    /\ buf.selectionStart = prev.selectionStart + delta
                    /\ buf.selectionEnd = prev.selectionStart + delta

\* the run of heading applications in progress started at a cursor
RunFromCursor == headingFrom.selectionStart = headingFrom.selectionEnd

\* the text the first application of the run read: from the line start to
\* the cursor
RunRead ==
    LET lineStart == LineStartOf(headingFrom.text, headingFrom.selectionStart)
    IN  SubSeq(headingFrom.text, lineStart + 1, headingFrom.selectionEnd)

\* the prefix the first application of the run read
RunPrefix ==
    IF StartsWith(RunRead, H3) THEN H3
    ELSE IF StartsWith(RunRead, H2) THEN H2
    ELSE IF StartsWith(RunRead, H1) THEN H1
    ELSE <<>>

\* what the first application read after that prefix
RunContent == SubSeq(RunRead, Len(RunPrefix) + 1, Len(RunRead))

\* the content reads as a prefix itself once the prefix before it is removed
RunContentIsPrefixed == \E p \in {H1, H2, H3} : StartsWith(RunContent, p)

\* the run started on the first line with the cursor right after a bare
\* prefix (none, ##  or ### ) and right before a line break
RunAfterBareFirstPrefix ==
    /\ LineStartOf(headingFrom.text, headingFrom.selectionStart) = 0
    /\ RunContent = <<>>
    /\ headingFrom.selectionEnd < Len(headingFrom.text)
    /\ headingFrom.text[headingFrom.selectionEnd + 1] = NL

----------------------------------------------------------------------------
(* Claims about the aggregation step of validateIssue *)

Settled(res) == res.status \in {"fulfilled", "rejected"}

IssueStrings ==
    {"Could not fetch existing issues.", "Error fetching issues: ", "joined"}
TreeStrings ==
    {"Could not fetch project files.",
     "Could not fetch file tree (repo might be empty or too large/private).", "joined"}

\* C2: whatever the outcomes of the three requests (success, failure, success
\* with an unusable payload), the aggregation step never raises to its caller
\* and reaches prompt assembly with both existingIssuesSummary and
\* projectContext set to a string (summarized content or a placeholder).
C2_AggregationNeverRaises ==
    /\ ~raised
    /\ pc \in {"start", "status400", "allSettled", "awaitFallback", "prompt"}
    /\ pc = "prompt" =>
          /\ existingIssuesSummary.kind \in IssueStrings
          /\ projectContext.kind \in TreeStrings

\* the issue request resolves to a payload that is no array and the request
\* for main is rejected: both fields keep their first placeholder
C2_Witness ==
    /\ pc = "prompt"
    /\ issuesRes.status = "fulfilled" /\ ~issuesRes.data.isArray
    /\ treeRes.status = "rejected"
    /\ existingIssuesSummary = CouldNotFetchIssues
    /\ projectContext = CouldNotFetchFiles

\* what each source yields on its own
IssuesFieldOf(res) ==
    IF res.status = "rejected" THEN ErrorFetchingIssues(res.reason)
    ELSE IF IssuesSummary(res.data).thrown THEN CouldNotFetchIssues
    ELSE IssuesSummary(res.data).value

TreeFieldOf(main, master) ==
    IF main.status = "fulfilled"
    THEN IF TreeSummary(main.data).thrown THEN CouldNotFetchFiles
         ELSE TreeSummary(main.data).value
    ELSE IF master.status = "fulfilled" /\ ~TreeSummary(master.data).thrown
         THEN TreeSummary(master.data).value
         ELSE CouldNotFetchTree

\* C3: the issue source and the tree source are independent: the tree field is
\* determined only by the outcomes of the tree requests and the issues field
\* only by the outcome of the issue request.
C3_SourcesIndependent ==
    pc = "prompt" =>
        /\ existingIssuesSummary = IssuesFieldOf(issuesRes)
        /\ projectContext = TreeFieldOf(treeRes, fallbackTree)

\* C4: the request for master is made if and only if the request for main
\* failed, at most once, only after both primary requests have settled and
\* never while another request is in flight; an aggregation makes exactly two
\* requests when the request for main succeeds and exactly three when it fails.
C4_FallbackIffPrimaryFailed ==
    /\ fallbackTree.status # "none" =>
          Settled(issuesRes) /\ treeRes.status = "rejected"
    /\ pc = "prompt" =>
          /\ (fallbackTree.status # "none") <=> (treeRes.status = "rejected")
          /\ fetches = IF treeRes.status = "rejected" THEN 3 ELSE 2

\* the listing the tree summary was made from
BlobIndexes(tree) == {i \in 1..Len(tree) : tree[i].type = "blob"}
LinesOf(v) == {v.lines[k] : k \in 1..Len(v.lines)}

FirstFilesOf(lines, tree) ==
    /\ \A k \in 1..Len(lines) : lines[k] \in BlobIndexes(tree)
    /\ \A k \in 1..(Len(lines) - 1) : lines[k] < lines[k + 1]
    /\ Len(lines) <= 100
    /\ Len(lines) = Min(100, Cardinality(BlobIndexes(tree)))
    /\ \A i \in BlobIndexes(tree) :
          (\A k \in 1..Len(lines) : lines[k] # i) => i > lines[Len(lines)]

\* the issue list could not be summarized, so lines 52-72 were not reached
IssueSummaryThrew ==
    issuesRes.status = "fulfilled" /\ IssuesSummary(issuesRes.data).thrown

C14_SummariesAreTotal ==
    (pc = "prompt" /\ issuesRes.status = "fulfilled" /\ issuesRes.data.isArray) =>
        /\ existingIssuesSummary.kind = "joined"
        /\ Len(existingIssuesSummary.lines) = Len(issuesRes.data.items)

----------------------------------------------------------------------------
(* Claims about buildSectionsList *)

FixedOrder ==
    <<"Description", "Summary", "Related Issue", "Type of Change", "Checklist",
      "Breaking Changes", "Testing Details", "Screenshots", "Additional Notes">>

\* the toggle of each conditional section; "" for a section that has none
ToggleOfSection ==
    <<"", "includeSummary", "includeLinkedIssues", "", "includeChecklist",
      "includeBreakingChanges", "", "includeScreenshots", "">>

\* the positions of FixedOrder a toggle set asks for: the sections without a
\* toggle, and those whose toggle is true or unset
Wanted(settings) ==
    {i \in 1..9 : \/ ToggleOfSection[i] = ""
                  \/ ToggleOfSection[i] \notin DOMAIN settings
                  \/ settings[ToggleOfSection[i]]}

\* entries names exactly the sections of FixedOrder at the positions in W, in order
IsSubsequenceAt(entries, W) ==
    /\ Len(entries) = Cardinality(W)
    /\ \A k \in 1..Len(entries) :
          \E i \in W : /\ entries[k].name = FixedOrder[i]
                       /\ Cardinality({j \in W : j < i}) = k - 1

AllToggles(settings, v) ==
    DOMAIN settings = Toggles /\ \A k \in Toggles : settings[k] = v

\* C6 as stated: the output is the sub-sequence of the fixed order with every
\* unconditional section and each conditional one iff its toggle is true or
\* unset; all toggles true or absent gives 9 sections, all toggles false
\* gives exactly 5.
C6_AsStated ==
    planPc = "prompt" =>
        /\ IsSubsequenceAt(sections, Wanted(body.structureSettings))
        /\ Wanted(body.structureSettings) = 1..9 => Len(sections) = 9
        /\ AllToggles(body.structureSettings, FALSE) => Len(sections) = 5

\* C6 amended: the same, with four unconditional sections (Description, Type
\* of Change, Testing Details, Additional Notes): all toggles false gives
\* exactly those 4, all toggles true or absent gives all 9.
C6_SectionsSubsequence ==
    planPc = "prompt" =>
        /\ IsSubsequenceAt(sections, Wanted(body.structureSettings))
        /\ (\A k \in DOMAIN body.structureSettings : body.structureSettings[k]) =>
              [k \in 1..Len(sections) |-> sections[k].name] = FixedOrder
        /\ AllToggles(body.structureSettings, FALSE) =>
              [k \in 1..Len(sections) |-> sections[k].name] =
                 <<"Description", "Type of Change", "Testing Details", "Additional Notes">>

\* checklist and screenshots switched off, the other toggles unset: 7 sections
C6_Witness ==
    /\ planPc = "prompt"
    /\ body.structureSettings =
          [k \in {"includeChecklist", "includeScreenshots"} |-> FALSE]
    /\ [k \in 1..Len(sections) |-> sections[k].name] =
          <<"Description", "Summary", "Related Issue", "Type of Change",
            "Breaking Changes", "Testing Details", "Additional Notes">>

----------------------------------------------------------------------------
(* Claims about parseGitHubUrl *)

\* the path of a repoLink that parses: from the first "/" after the origin on
PathOf(u) ==
    LET rest == SubSeq(u, 2, Len(u))
    IN  IF \A i \in 1..Len(rest) : rest[i] # "/" THEN <<>>
        ELSE SubSeq(rest, CHOOSE i \in 1..Len(rest) :
                              rest[i] = "/" /\ \A j \in 1..(i - 1) : rest[j] # "/",
                    Len(rest))

\* the path with a trailing .git left out
PathWithoutDotGit(u) ==
    LET p == PathOf(u)
    IN  IF p # <<>> /\ p[Len(p)] = ".git" THEN SubSeq(p, 1, Len(p) - 1) ELSE p

\* the non-empty segments of p, as pairs <<first, last>> of positions
Segments(p) ==
    {<<i, j>> \in (1..Len(p)) \X (1..Len(p)) :
        /\ i <= j
        /\ \A k \in i..j : p[k] # "/"
        /\ (i = 1 \/ p[i - 1] = "/")
        /\ (j = Len(p) \/ p[j + 1] = "/")}

\* the n-th segment, in order of position
NthSegment(p, n) ==
    LET sg == CHOOSE q \in Segments(p) :
                  Cardinality({r \in Segments(p) : r[1] < q[1]}) = n - 1
    IN  SubSeq(p, sg[1], sg[2])

====
